---- MODULE Spec2Model ----
(***************************************************************************)
(* A model of the maa-telegram-bot task orchestration core: the device     *)
(* registry and the task-id correlation table of AppState (src/main.rs),   *)
(* the poll (get_task) and report (report_status) HTTP handlers, and the   *)
(* Telegram dialogue handlers of src/bot/.                                 *)
(*                                                                         *)
(* Strings are sequences of chunks.  A chunk is one of the selection tags  *)
(* "d:", "u:", "t:" or a piece of text that holds no ':' at all, so the    *)
(* occurrences of a tag in a string are exactly the chunks equal to it and *)
(* str::starts_with / str::replace can be computed chunk by chunk.         *)
(***************************************************************************)
EXTENDS Naturals, Integers, Sequences, FiniteSets, TLC

\* The number of task ids (uuid::Uuid::new_v4) the model hands out.
MaxTasks == 2

\* The number of sessions the registry may hold before polls stop admitting new ones.
MaxSessions == 2

\* ------------------------------------------------------------------------
\* Strings

EmptyStr == <<>>

starts_with(s, tag) == Len(s) > 0 /\ s[1] = tag

\* str::replace(tag, ""): every occurrence of the tag goes, not only a prefix.
replace(s, tag) == SelectSeq(s, LAMBDA c : c # tag)

\* format!("{tag}{}", s)
format(tag, s) == <<tag>> \o s

\* ------------------------------------------------------------------------
\* model.rs: TaskType

TaskType ==
    { "CaptureImage", "CaptureImageNow", "LinkStartBase", "LinkStartWakeUp",
      "LinkStartCombat", "LinkStartRecruiting", "LinkStartMall", "LinkStartMission",
      "LinkStartAutoRoguelike", "LinkStartReclamationAlgorithm", "HeartBeat" }

\* impl Display for TaskType
to_string(t) ==
    CASE t = "CaptureImage" -> <<"CaptureImage">>
      [] t = "CaptureImageNow" -> <<"CaptureImageNow">>
      [] t = "LinkStartBase" -> <<"LinkStart-Base">>
      [] t = "LinkStartWakeUp" -> <<"LinkStart-WakeUp">>
      [] t = "LinkStartCombat" -> <<"LinkStart-Combat">>
      [] t = "LinkStartRecruiting" -> <<"LinkStart-Recruiting">>
      [] t = "LinkStartMall" -> <<"LinkStart-Mall">>
      [] t = "LinkStartMission" -> <<"LinkStart-Mission">>
      [] t = "LinkStartAutoRoguelike" -> <<"LinkStart-AutoRoguelike">>
      [] t = "LinkStartReclamationAlgorithm" -> <<"LinkStart-ReclamationAlgorithm">>
      [] t = "HeartBeat" -> <<"HeartBeat">>

\* A choice list that offers the variants' identifiers, not their display names.
get_all_VariantNames ==
    << <<"CaptureImage">>, <<"CaptureImageNow">>, <<"LinkStartBase">>,
       <<"LinkStartWakeUp">>, <<"LinkStartCombat">>, <<"LinkStartRecruiting">>,
       <<"LinkStartMall">>, <<"LinkStartMission">>, <<"LinkStartAutoRoguelike">>,
       <<"LinkStartReclamationAlgorithm">> >>

\* TaskType::get_all: the names offered in the task choice list (no HeartBeat).
get_all ==
    << <<"CaptureImage">>, <<"CaptureImageNow">>, <<"LinkStart-Base">>,
       <<"LinkStart-WakeUp">>, <<"LinkStart-Combat">>, <<"LinkStart-Recruiting">>,
       <<"LinkStart-Mall">>, <<"LinkStart-Mission">>, <<"LinkStart-AutoRoguelike">>,
       <<"LinkStart-ReclamationAlgorithm">> >>

Panic == "panic"

\* impl From<&str> for TaskType: any other string panics.
from_str(s) ==
    CASE s = <<"CaptureImage">> -> "CaptureImage"
      [] s = <<"CaptureImageNow">> -> "CaptureImageNow"
      [] s = <<"LinkStart-Base">> -> "LinkStartBase"
      [] s = <<"LinkStart-WakeUp">> -> "LinkStartWakeUp"
      [] s = <<"LinkStart-Combat">> -> "LinkStartCombat"
      [] s = <<"LinkStart-Recruiting">> -> "LinkStartRecruiting"
      [] s = <<"LinkStart-Mall">> -> "LinkStartMall"
      [] s = <<"LinkStart-Mission">> -> "LinkStartMission"
      [] s = <<"LinkStart-AutoRoguelike">> -> "LinkStartAutoRoguelike"
      [] s = <<"LinkStart-ReclamationAlgorithm">> -> "LinkStartReclamationAlgorithm"
      [] s = <<"HeartBeat">> -> "HeartBeat"
      [] OTHER -> Panic

\* ------------------------------------------------------------------------
\* model.rs: Task, User, Device

\* uuid::Uuid::new_v4().to_string() of the n-th task created: fresh, never reused.
UuidNames == << <<"T1">>, <<"T2">>, <<"T3">>, <<"T4">>, <<"T5">>, <<"T6">>, <<"T7">>, <<"T8">> >>

\* An id generator that hands out the same id every time.
Uuid_Reused(n) == UuidNames[1]

Uuid(n) == UuidNames[n]

\* Task::new
Task(n, task_type) == [id |-> Uuid(n), task_type |-> task_type]

\* User { id, tasks: vec![] }
User(id) == [id |-> id, tasks |-> <<>>]

\* An empty HashMap.
EmptyMap == <<>>

\* HashMap::insert / entry().or_insert on a map kept as a function.
MapPut(m, k, v) == [x \in DOMAIN m \cup {k} |-> IF x = k THEN v ELSE m[x]]

\* Device::new
\* A device made without a display name.
Device_new_Unnamed(id) == [id |-> id, name |-> <<>>, users |-> <<>>]

Device_new(id) == [id |-> id, name |-> id, users |-> EmptyMap]

\* Device::new_with_name
Device_new_with_name(id, name) == [id |-> id, name |-> name, users |-> EmptyMap]

\* ------------------------------------------------------------------------
\* Configuration and inputs

\* Device and session ids a poll may carry (GetTaskReq.device, GetTaskReq.user).
DeviceIds == { <<"A">>, <<"B">> }

UserIds == { <<"u1">>, <<"u2">> }

\* Config.devices: no allow-list, or an allow-list naming device A "Alpha".
NoAllowList == [some |-> FALSE, map |-> EmptyMap]

AllowLists == { NoAllowList, [some |-> TRUE, map |-> MapPut(EmptyMap, <<"A">>, <<"Alpha">>)] }

\* Config.telegram_user_id, and the chats an update may come from.
tg_user_id == 1

ChatIds == { 1, 2 }

\* ------------------------------------------------------------------------
\* State

VARIABLES
    devices,          \* AppState.devices: device id -> Device
    all_tasks,        \* AppState.all_tasks: task id -> TaskType
    is_single_user,   \* AppState.is_single_user
    allowed_devices,  \* AppState.allowed_devices
    poisoned,         \* the two RwLocks have been poisoned by a panicking writer
    next_uuid,        \* number of task ids handed out so far
    issued,           \* every Task::new so far, in order (history)
    poll,             \* the get_task call that holds the devices write lock, if any
    dialog,           \* InMemStorage<BotDialogState>: chat id -> dialogue state
    turn,             \* the update whose handler is under way, if any
    report,           \* the report_status call under way, if any
    out               \* the outcome of the request or turn that just ended, until delivered

vars ==
    << devices, all_tasks, is_single_user, allowed_devices, poisoned, next_uuid,
       issued, poll, dialog, turn, report, out >>

None == [op |-> "none"]

\* BotDialogState
Idle == [state |-> "Idle"]

StartAppendTask == [state |-> "StartAppendTask"]

AppendTaskToDevice(device_id) == [state |-> "AppendTaskToDevice", device_id |-> device_id]

AppendTaskToUser(device_id, user_id) ==
    [state |-> "AppendTaskToUser", device_id |-> device_id, user_id |-> user_id]

StartAppendHeartBeatTask == [state |-> "StartAppendHeartBeatTask"]

AppendHeartBeatTaskToDevice(device_id) ==
    [state |-> "AppendHeartBeatTaskToDevice", device_id |-> device_id]

\* AppState::new, and an empty dialogue storage (every chat defaults to Idle).
Init ==
    /\ devices = EmptyMap
    /\ all_tasks = EmptyMap
    /\ is_single_user = FALSE
    /\ allowed_devices \in AllowLists
    /\ poisoned = FALSE
    /\ next_uuid = 0
    /\ issued = <<>>
    /\ poll = None
    /\ dialog = [c \in ChatIds |-> Idle]
    /\ turn = None
    /\ report = None
    /\ out = None

\* The outcome of a finished request or turn is handed to its caller; until then
\* nothing else is scheduled, so that every outcome is seen next to the state it left.
Deliver ==
    /\ out # None
    /\ out' = None
    /\ UNCHANGED << devices, all_tasks, is_single_user, allowed_devices, poisoned,
                    next_uuid, issued, poll, dialog, turn, report >>

\* No request or turn is under way.  A request that takes no lock another handler
\* waits for, and a turn that is dropped, are started in such a state only: between
\* the steps of the other handlers they would see and change the same state.
Quiet ==
    /\ poll = None
    /\ report = None
    /\ IF turn = None THEN TRUE ELSE turn.pc = "deadlock"

\* ------------------------------------------------------------------------
\* Locks

\* A handler deadlocked on the devices lock keeps its read guard forever.
DevicesReadHeld == turn # None /\ turn.pc = "deadlock"

\* devices.write() returns: no writer and no reader holds the lock.
CanWriteDevices == poll = None /\ ~DevicesReadHeld

\* devices.read() returns: no writer holds the lock.
CanReadDevices == poll = None

\* ------------------------------------------------------------------------
\* main.rs: get_task

\* Total number of sessions in a registry.
RECURSIVE SumUsers(_, _)
SumUsers(devs, ids) ==
    IF ids = {} THEN 0
    ELSE LET d == CHOOSE x \in ids : TRUE
         IN Cardinality(DOMAIN devs[d].users) + SumUsers(devs, ids \ {d})

Sessions(devs) == SumUsers(devs, DOMAIN devs)

\* Lines 213-229: the device is materialized unless the allow-list refuses it.
Admitted(device) ==
    IF device \in DOMAIN devices THEN TRUE
    ELSE IF allowed_devices.some THEN device \in DOMAIN allowed_devices.map
    ELSE TRUE

\* A registry that names every new device after its id.
WithDevice_NamedById(device) ==
    IF device \in DOMAIN devices THEN devices
    ELSE MapPut(devices, device, Device_new(device))

\* A poll that starts the registry afresh for a device it does not know.
WithDevice_Alone(device) ==
    IF device \in DOMAIN devices THEN devices
    ELSE MapPut(<<>>, device, Device_new(device))

WithDevice(device) ==
    IF device \in DOMAIN devices THEN devices
    ELSE IF allowed_devices.some
         THEN MapPut(devices, device, Device_new_with_name(device, allowed_devices.map[device]))
         ELSE MapPut(devices, device, Device_new(device))

\* Lines 232-237: users.entry(req.user).or_insert(User { .. })
\* A poll that inserts a new, empty session whether or not the device has it.
WithUser_Reinsert(devs, device, user) ==
    [devs EXCEPT ![device].users = MapPut(@, user, User(user))]

WithUser(devs, device, user) ==
    IF user \in DOMAIN devs[device].users THEN devs
    ELSE [devs EXCEPT ![device].users = MapPut(@, user, User(user))]

\* Line 238: what becomes of the session's list once its tasks are cloned.
\* A poll that clears the list it returns.
TasksAfterPoll_Cleared(tasks) == <<>>

TasksAfterPoll(tasks) == tasks

\* Lines 240-248: the value stored to is_single_user.
\* The flag computed from the session count alone.
SingleUser_UsersOnly(device_length, users_len) == users_len = 1

\* The flag computed from the device count alone.
SingleUser_DevicesOnly(device_length, users_len) == device_length = 1

SingleUser(device_length, users_len) == device_length = 1 /\ users_len = 1

\* Lines 211-238: takes the write lock, admits device and session, clones the tasks.
get_task_begin(device, user) ==
    /\ out = None
    /\ CanWriteDevices
    /\ ~poisoned
    /\ Admitted(device)
    /\ LET devs == WithUser(WithDevice(device), device, user)
           tasks == devs[device].users[user].tasks
       IN /\ Sessions(devs) <= MaxSessions
          /\ devices' = [devs EXCEPT ![device].users[user].tasks = TasksAfterPoll(tasks)]
          /\ poll' = [op |-> "get_task", device |-> device, user |-> user, tasks |-> tasks,
                      single |-> SingleUser(Cardinality(DOMAIN devs),
                                            Cardinality(DOMAIN devs[device].users))]
    /\ UNCHANGED << all_tasks, is_single_user, allowed_devices, poisoned, next_uuid, issued,
                    dialog, turn, report, out >>

\* Lines 240-250: stores the flag, drops the lock, answers with the cloned tasks.
\* A poll that ends the operator's dialogue when it answers.
get_task_end_ExitsDialog ==
    /\ out = None
    /\ poll # None
    /\ is_single_user' = poll.single
    /\ out' = [op |-> "get_task", device |-> poll.device, user |-> poll.user,
               status |-> "OK", tasks |-> poll.tasks]
    /\ poll' = None
    /\ dialog' = [c \in DOMAIN dialog |-> Idle]
    /\ UNCHANGED << devices, all_tasks, allowed_devices, poisoned, next_uuid, issued, turn, report >>

get_task_end ==
    /\ out = None
    /\ poll # None
    /\ is_single_user' = poll.single
    /\ out' = [op |-> "get_task", device |-> poll.device, user |-> poll.user,
               status |-> "OK", tasks |-> poll.tasks]
    /\ poll' = None
    /\ UNCHANGED << devices, all_tasks, allowed_devices, poisoned, next_uuid, issued, dialog, turn, report >>

\* Lines 213-223: a device the allow-list does not name gets an empty list.
get_task_refused(device, user) ==
    /\ out = None
    /\ CanWriteDevices
    /\ ~poisoned
    /\ ~Admitted(device)
    /\ out' = [op |-> "get_task", device |-> device, user |-> user,
               status |-> "OK", tasks |-> <<>>]
    /\ UNCHANGED << devices, all_tasks, is_single_user, allowed_devices, poisoned,
                    next_uuid, issued, poll, dialog, turn, report >>

\* Line 211: devices.write()? on a poisoned lock is AppError::PoisonError (a 500).
get_task_poisoned(device, user) ==
    /\ out = None
    /\ CanWriteDevices
    /\ poisoned
    /\ out' = [op |-> "get_task", device |-> device, user |-> user,
               status |-> "INTERNAL_SERVER_ERROR", tasks |-> <<>>]
    /\ UNCHANGED << devices, all_tasks, is_single_user, allowed_devices, poisoned,
                    next_uuid, issued, poll, dialog, turn, report >>

\* ------------------------------------------------------------------------
\* bot/mod.rs: registry accessors

\* get_devices: the names (or ids) in HashMap order, which is arbitrary: a set.
get_devices(use_name) ==
    { IF use_name THEN devices[d].name ELSE devices[d].id : d \in DOMAIN devices }

\* get_users: users.unwrap() panics for a device id the registry does not hold.
get_users(device_id) ==
    { devices[device_id].users[u].id : u \in DOMAIN devices[device_id].users }

GetUsersPanics(device_id) == IF poisoned THEN TRUE ELSE device_id \notin DOMAIN devices

get_tasks_markup == { format("t:", get_all[i]) : i \in 1..Len(get_all) }

get_devices_markup == { format("d:", d) : d \in get_devices(TRUE) }

get_users_markup(device_id) == { format("u:", u) : u \in get_users(device_id) }

\* get_is_single_user: an atomic load of the flag.
\* A bot that never takes the single-session shortcut.
get_is_single_user_Never == FALSE

get_is_single_user == is_single_user

\* get_permitted_user_id and the filter of schema(): chat_id.is_user() && chat_id.0 == id
\* A filter that lets every private chat through.
permitted_AnyUser(chat) == chat > 0

permitted(chat) == chat > 0 /\ chat = tg_user_id

\* Lines 141-153 of append_task: the tasks pushed for one enqueue.
\* An enqueue that adds no companion to a HeartBeat task.
NewTasks_NoCompanionForHeartBeat(n, task_type) ==
    IF task_type \notin { "CaptureImage", "HeartBeat" }
    THEN << Task(n + 1, task_type), Task(n + 2, "CaptureImage") >>
    ELSE << Task(n + 1, task_type) >>

NewTasks(n, task_type) ==
    IF task_type # "CaptureImage"
    THEN << Task(n + 1, task_type), Task(n + 2, "CaptureImage") >>
    ELSE << Task(n + 1, task_type) >>

\* all_states.insert(task_id, task_type) for each pushed task.
\* An enqueue that records only the first pushed task in all_tasks.
InsertAll_PrimaryOnly(m, tasks) ==
    IF tasks = <<>> THEN m
    ELSE MapPut(m, Head(tasks).id, Head(tasks).task_type)

\* An enqueue that starts the correlation map afresh with the tasks it pushes.
InsertAll_Afresh(m, tasks) ==
    IF tasks = <<>> THEN EmptyMap
    ELSE MapPut(EmptyMap, Head(tasks).id, Head(tasks).task_type)

RECURSIVE InsertAll(_, _)
InsertAll(m, tasks) ==
    IF tasks = <<>> THEN m
    ELSE InsertAll(MapPut(m, Head(tasks).id, Head(tasks).task_type), Tail(tasks))

\* The unwraps of append_task and the panic of TaskType::from.
AppendPanics(device_id, user_id, task) ==
    IF poisoned THEN TRUE
    ELSE IF device_id \notin DOMAIN devices THEN TRUE
    ELSE IF user_id \notin DOMAIN devices[device_id].users THEN TRUE
    ELSE from_str(task) = Panic

\* The ids one enqueue takes are still to be had.
UuidsLeft(device_id, user_id, task) ==
    IF AppendPanics(device_id, user_id, task) THEN TRUE
    ELSE next_uuid + Len(NewTasks(next_uuid, from_str(task))) <= MaxTasks

\* append_task: both write locks are held from line 130 on, so a panic poisons them.
\* An enqueue that puts the new tasks in front of the session's list.
append_task_InFront(device_id, user_id, task) ==
    IF AppendPanics(device_id, user_id, task)
    THEN /\ poisoned' = TRUE
         /\ UNCHANGED << devices, all_tasks, next_uuid, issued >>
    ELSE LET new == NewTasks(next_uuid, from_str(task))
         IN /\ devices' = [devices EXCEPT ![device_id].users[user_id].tasks = new \o @]
            /\ all_tasks' = InsertAll(all_tasks, new)
            /\ next_uuid' = next_uuid + Len(new)
            /\ issued' = issued \o new
            /\ UNCHANGED poisoned

append_task(device_id, user_id, task) ==
    IF AppendPanics(device_id, user_id, task)
    THEN /\ poisoned' = TRUE
         /\ UNCHANGED << devices, all_tasks, next_uuid, issued >>
    ELSE LET new == NewTasks(next_uuid, from_str(task))
         IN /\ devices' = [devices EXCEPT ![device_id].users[user_id].tasks = @ \o new]
            /\ all_tasks' = InsertAll(all_tasks, new)
            /\ next_uuid' = next_uuid + Len(new)
            /\ issued' = issued \o new
            /\ UNCHANGED poisoned

\* ------------------------------------------------------------------------
\* Updates, replies and the end of a turn

Commands == { "appendtask", "screenshotall", "getcurrenttask" }

\* Names a device list of this or an earlier run of the bot has shown.
DeviceNames == DeviceIds \cup { <<"Alpha">> }

\* Kinds of the task list the operator picks from in this model.
TaskNames == { <<"CaptureImage">>, <<"LinkStart-Combat">> }

\* Callback data of the buttons the operator can still press.
Tokens ==
    { format("d:", d) : d \in DeviceNames } \cup { format("u:", u) : u \in UserIds }
        \cup { format("t:", t) : t \in TaskNames }

Msg(text, args, markup) ==
    [method |-> "send_message", text |-> text, args |-> args, markup |-> markup]

\* A callback acknowledgement sent as a chat message.
Answer_AsMessage == [method |-> "send_message", text |-> "", args |-> <<>>, markup |-> {}]

Answer == [method |-> "answer_callback_query", text |-> "", args |-> <<>>, markup |-> {}]

Update(chat, kind, data) == [chat |-> chat, kind |-> kind, data |-> data]

\* The handler of an update ends: Ok(()), an Err, a panic, or no handler at all.
\* The turn made no call of append_task, or the call it made.
NoCall == [device_id |-> <<>>, user_id |-> <<>>, task |-> <<>>, made |-> FALSE]

Call(device_id, user_id, task) ==
    [device_id |-> device_id, user_id |-> user_id, task |-> task, made |-> TRUE]

EndTurnWith(upd, before, result, replies, call) ==
    out' = [op |-> "update", chat |-> upd.chat, kind |-> upd.kind, data |-> upd.data,
            before |-> before, result |-> result, replies |-> replies, call |-> call]

EndTurn(upd, before, result, replies) == EndTurnWith(upd, before, result, replies, NoCall)

Running(upd, label) ==
    [op |-> "update", chat |-> upd.chat, kind |-> upd.kind, data |-> upd.data,
     before |-> dialog[upd.chat], pc |-> label]

\* schema(): the filter drops every update of a chat that is not the permitted one.
drop_update(chat, kind, data) ==
    /\ out = None /\ Quiet
    /\ ~permitted(chat)
    /\ EndTurn(Update(chat, kind, data), dialog[chat], "dropped", <<>>)
    /\ UNCHANGED << devices, all_tasks, is_single_user, allowed_devices, poisoned,
                    next_uuid, issued, poll, dialog, turn, report >>

\* schema(): no branch of callback_handler matches BotDialogState::Idle.
unhandled_callback(chat, data) ==
    /\ out = None /\ Quiet /\ turn = None
    /\ permitted(chat)
    /\ dialog[chat].state = "Idle"
    /\ EndTurn(Update(chat, "callback", data), dialog[chat], "unhandled", <<>>)
    /\ UNCHANGED << devices, all_tasks, is_single_user, allowed_devices, poisoned,
                    next_uuid, issued, poll, dialog, turn, report >>

\* ------------------------------------------------------------------------
\* bot/append_task.rs: start_append_task_dialog

\* The command resumes the flow: the dialogue state is kept when the flag is false.
start_append_task_dialog_Resumes(chat) ==
    /\ out = None /\ turn = None
    /\ permitted(chat)
    /\ LET upd == Update(chat, "command", "appendtask")
       IN IF get_is_single_user
          THEN turn' = Running(upd, "get_single_device_and_user")
          ELSE turn' = Running(upd, "get_devices_markup")
    /\ UNCHANGED << devices, all_tasks, is_single_user, allowed_devices, poisoned,
                    next_uuid, issued, poll, dialog, report, out >>

\* Lines 17 and 36: reads the flag; when it is false the dialogue is updated at once.
start_append_task_dialog(chat) ==
    /\ out = None /\ turn = None
    /\ permitted(chat)
    /\ LET upd == Update(chat, "command", "appendtask")
       IN IF get_is_single_user
          THEN /\ turn' = Running(upd, "get_single_device_and_user")
               /\ UNCHANGED dialog
          ELSE /\ dialog' = [dialog EXCEPT ![chat] = StartAppendTask]
               /\ turn' = Running(upd, "get_devices_markup")
    /\ UNCHANGED << devices, all_tasks, is_single_user, allowed_devices, poisoned,
                    next_uuid, issued, poll, report, out >>

\* get_single_device_and_user: devices.values().next() and users.values().next().
SinglePairs ==
    UNION { { << devices[d], devices[d].users[u] >> : u \in DOMAIN devices[d].users } :
            d \in DOMAIN devices }

\* Lines 18-33: binds the dialogue to the pair the registry yields first.
start_append_task_single ==
    /\ out = None /\ turn # None /\ turn.pc = "get_single_device_and_user"
    /\ turn.data = "appendtask"
    /\ CanReadDevices
    /\ IF poisoned \/ SinglePairs = {}
       THEN /\ EndTurn(turn, turn.before, "panic", <<>>)
            /\ UNCHANGED dialog
       ELSE \E pair \in SinglePairs :
              /\ dialog' = [dialog EXCEPT
                              ![turn.chat] = AppendTaskToUser(pair[1].id, pair[2].id)]
              /\ EndTurn(turn, turn.before, "ok",
                         << Msg("Select task for device {}, user {}",
                                << pair[1].name, pair[2].id >>, get_tasks_markup) >>)
    /\ turn' = None
    /\ UNCHANGED << devices, all_tasks, is_single_user, allowed_devices, poisoned,
                    next_uuid, issued, poll, report >>

\* Lines 38-44 (and get_current_task.rs 27-31): the device list is sent.
send_devices_markup ==
    /\ out = None /\ turn # None /\ turn.pc = "get_devices_markup"
    /\ CanReadDevices
    /\ IF poisoned
       THEN EndTurn(turn, turn.before, "panic", <<>>)
       ELSE EndTurn(turn, turn.before, "ok",
                    << Msg("Select device:", <<>>, get_devices_markup) >>)
    /\ turn' = None
    /\ UNCHANGED << devices, all_tasks, is_single_user, allowed_devices, poisoned,
                    next_uuid, issued, poll, dialog, report >>

\* ------------------------------------------------------------------------
\* bot/get_current_task.rs: start_get_current_task_dialog

\* Lines 12 and 22: reads the flag; when it is false the dialogue is updated at once.
start_get_current_task_dialog(chat) ==
    /\ out = None /\ turn = None
    /\ permitted(chat)
    /\ LET upd == Update(chat, "command", "getcurrenttask")
       IN IF get_is_single_user
          THEN /\ next_uuid + 2 <= MaxTasks
               /\ turn' = Running(upd, "get_single_device_and_user")
               /\ UNCHANGED dialog
          ELSE /\ dialog' = [dialog EXCEPT ![chat] = StartAppendHeartBeatTask]
               /\ turn' = Running(upd, "get_devices_markup")
    /\ UNCHANGED << devices, all_tasks, is_single_user, allowed_devices, poisoned,
                    next_uuid, issued, poll, report, out >>

\* Lines 13-18: the pair the registry yields first gets a HeartBeat task; no reply.
start_get_current_task_single ==
    /\ out = None /\ turn # None /\ turn.pc = "get_single_device_and_user"
    /\ turn.data = "getcurrenttask"
    /\ CanWriteDevices
    /\ IF poisoned \/ SinglePairs = {}
       THEN /\ EndTurn(turn, turn.before, "panic", <<>>)
            /\ UNCHANGED << devices, all_tasks, next_uuid, issued, poisoned, dialog >>
       ELSE \E pair \in SinglePairs :
              /\ dialog' = [dialog EXCEPT ![turn.chat] = Idle]
              /\ append_task(pair[1].id, pair[2].id, to_string("HeartBeat"))
              /\ EndTurnWith(turn, turn.before, "ok", <<>>,
                             Call(pair[1].id, pair[2].id, to_string("HeartBeat")))
    /\ turn' = None
    /\ UNCHANGED << is_single_user, allowed_devices, poll, report >>

\* ------------------------------------------------------------------------
\* bot/screenshot_all.rs: take_screenshot_all

\* append_screenshot_to_all calls append_task, which asks for the devices write lock,
\* with its own read guard alive: RwLock::write then blocks forever or panics.
take_screenshot_all(chat) ==
    /\ out = None /\ turn = None
    /\ permitted(chat)
    /\ CanReadDevices
    /\ LET upd == Update(chat, "command", "screenshotall")
       IN IF poisoned
          THEN /\ EndTurn(upd, dialog[chat], "err", <<>>)
               /\ UNCHANGED turn
          ELSE IF DOMAIN devices = {}
          THEN /\ EndTurn(upd, dialog[chat], "ok", << Msg("Tasks sent.", <<>>, {}) >>)
               /\ UNCHANGED turn
          ELSE \/ /\ turn' = Running(upd, "deadlock")
                  /\ UNCHANGED out
               \/ /\ EndTurn(upd, dialog[chat], "panic", <<>>)
                  /\ UNCHANGED turn
    /\ UNCHANGED << devices, all_tasks, is_single_user, allowed_devices, poisoned,
                    next_uuid, issued, poll, dialog, report >>

\* ------------------------------------------------------------------------
\* bot/append_task.rs: receive_device, receive_user, receive_task

\* Lines 49, 99 and 145: the prefix each step asks of its token.
\* A device step that takes any non-empty token.
IsDeviceToken_AnyToken(data) == Len(data) > 0

IsDeviceToken(data) == starts_with(data, "d:")

\* A session step that takes any non-empty token.
IsUserToken_AnyToken(data) == Len(data) > 0

IsUserToken(data) == starts_with(data, "u:")

IsTaskToken(data) == starts_with(data, "t:")

\* Lines 62-78: the state that follows a device choice.
NextAfterDevice(current_state, device_id) ==
    IF current_state.state = "StartAppendTask" THEN AppendTaskToDevice(device_id)
    ELSE AppendHeartBeatTaskToDevice(device_id)

receive_device(chat, data) ==
    /\ out = None /\ turn = None
    /\ permitted(chat)
    /\ dialog[chat].state \in { "StartAppendTask", "StartAppendHeartBeatTask" }
    /\ LET upd == Update(chat, "callback", data)
           device_id == replace(data, "d:")
       IN IF ~IsDeviceToken(data)
          THEN /\ EndTurn(upd, dialog[chat], "ok",
                          << Msg("Invalid device id", <<>>, {}), Answer >>)
               /\ UNCHANGED dialog
          ELSE /\ CanReadDevices
               /\ dialog' = [dialog EXCEPT ![chat] = NextAfterDevice(dialog[chat], device_id)]
               /\ IF GetUsersPanics(device_id)
                  THEN EndTurn(upd, dialog[chat], "panic", << Answer >>)
                  ELSE EndTurn(upd, dialog[chat], "ok",
                               << Answer, Msg("Select user", <<>>, get_users_markup(device_id)) >>)
    /\ UNCHANGED << devices, all_tasks, is_single_user, allowed_devices, poisoned,
                    next_uuid, issued, poll, turn, report >>

receive_user(chat, data) ==
    /\ out = None /\ turn = None
    /\ permitted(chat)
    /\ dialog[chat].state \in { "AppendTaskToDevice", "AppendHeartBeatTaskToDevice" }
    /\ LET upd == Update(chat, "callback", data)
           device_id == dialog[chat].device_id
           user_id == replace(data, "u:")
       IN IF ~IsUserToken(data)
          THEN /\ EndTurn(upd, dialog[chat], "ok",
                          << Msg("Invalid user id", <<>>, {}), Answer >>)
               /\ UNCHANGED << dialog, devices, all_tasks, next_uuid, issued, poisoned >>
          ELSE IF dialog[chat].state = "AppendHeartBeatTaskToDevice"
          THEN /\ CanWriteDevices
               /\ UuidsLeft(device_id, user_id, to_string("HeartBeat"))
               /\ dialog' = [dialog EXCEPT ![chat] = Idle]
               /\ append_task(device_id, user_id, to_string("HeartBeat"))
               /\ EndTurnWith(upd, dialog[chat],
                              IF AppendPanics(device_id, user_id, to_string("HeartBeat"))
                              THEN "panic" ELSE "ok",
                              IF AppendPanics(device_id, user_id, to_string("HeartBeat"))
                              THEN <<>> ELSE << Answer >>,
                              Call(device_id, user_id, to_string("HeartBeat")))
          ELSE /\ dialog' = [dialog EXCEPT ![chat] = AppendTaskToUser(device_id, user_id)]
               /\ EndTurn(upd, dialog[chat], "ok",
                          << Answer, Msg("Select task", <<>>, get_tasks_markup) >>)
               /\ UNCHANGED << devices, all_tasks, next_uuid, issued, poisoned >>
    /\ UNCHANGED << is_single_user, allowed_devices, poll, turn, report >>

receive_task(chat, data) ==
    /\ out = None /\ turn = None
    /\ permitted(chat)
    /\ dialog[chat].state = "AppendTaskToUser"
    /\ LET upd == Update(chat, "callback", data)
           device_id == dialog[chat].device_id
           user_id == dialog[chat].user_id
           task == replace(data, "t:")
       IN IF ~IsTaskToken(data)
          THEN /\ EndTurn(upd, dialog[chat], "ok", << Msg("Invalid task", <<>>, {}), Answer >>)
               /\ UNCHANGED << dialog, devices, all_tasks, next_uuid, issued, poisoned >>
          ELSE /\ CanWriteDevices
               /\ UuidsLeft(device_id, user_id, task)
               /\ dialog' = [dialog EXCEPT ![chat] = Idle]
               /\ append_task(device_id, user_id, task)
               /\ EndTurnWith(upd, dialog[chat],
                              IF AppendPanics(device_id, user_id, task) THEN "panic" ELSE "ok",
                              IF AppendPanics(device_id, user_id, task)
                              THEN <<>> ELSE << Answer, Msg("Task added", <<>>, {}) >>,
                              Call(device_id, user_id, task))
    /\ UNCHANGED << is_single_user, allowed_devices, poll, turn, report >>

\* ------------------------------------------------------------------------
\* main.rs: get_task_type and report_status

TaskNotFound == "TaskNotFound"

PoisonError == "PoisonError"

\* A lookup that takes an unknown id for a LinkStartCombat task.
get_task_type_Lenient(task_id) ==
    IF poisoned THEN PoisonError
    ELSE IF task_id \in DOMAIN all_tasks THEN all_tasks[task_id]
    ELSE "LinkStartCombat"

get_task_type(task_id) ==
    IF poisoned THEN PoisonError
    ELSE IF task_id \in DOMAIN all_tasks THEN all_tasks[task_id]
    ELSE TaskNotFound

\* Payloads of a report: nothing, an image in base64, or a task id.
Base64Image == <<"aW1hZ2U=">>

Payloads == { EmptyStr, Base64Image } \cup { Uuid(n) : n \in 1..MaxTasks }

\* BASE64_STANDARD.decode(..) succeeds ('-' of a uuid is no base64 character).
DecodesAsBase64(payload) == payload \in { EmptyStr, Base64Image }

Statuses == { <<"SUCCESS">> }

EndReport(req, ack, notes) ==
    out' = [op |-> "report_status", task |-> req.task, status |-> req.status,
            payload |-> req.payload, ack |-> ack, notes |-> notes]

\* A notice that leaves out the reported status.
Finished_WithoutStatus(task_type, status) ==
    Msg("Task {} finished.", << to_string(task_type) >>, {})

Finished(task_type, status) ==
    Msg("Task {} finished. Status: {}", << to_string(task_type), status >>, {})

\* Lines 142-167 and 191-201: resolves the task, notifies, handles an image payload.
report_status(task, status, payload) ==
    /\ out = None /\ Quiet
    /\ LET req == [task |-> task, status |-> status, payload |-> payload]
           task_type == get_task_type(task)
       IN IF task_type \in { PoisonError, TaskNotFound }
          THEN EndReport(req, "INTERNAL_SERVER_ERROR", <<>>) /\ UNCHANGED report
          ELSE IF task_type \in { "CaptureImage", "CaptureImageNow" }
          THEN /\ IF DecodesAsBase64(payload)
                  THEN EndReport(req, "OK", << Finished(task_type, status),
                                 [method |-> "send_photo", text |-> "", args |-> << payload >>,
                                  markup |-> {}] >>)
                  ELSE EndReport(req, "panic", << Finished(task_type, status) >>)
               /\ UNCHANGED report
          ELSE IF task_type = "HeartBeat"
          THEN IF payload = EmptyStr
               THEN /\ EndReport(req, "OK", << Finished(task_type, status),
                                 Msg("No task is running.", <<>>, {}) >>)
                    /\ UNCHANGED report
               ELSE /\ report' = [op |-> "report_status", task |-> task, status |-> status,
                                  payload |-> payload,
                                  notes |-> << Finished(task_type, status) >>]
                    /\ UNCHANGED out
          ELSE EndReport(req, "OK", << Finished(task_type, status) >>) /\ UNCHANGED report
    /\ UNCHANGED << devices, all_tasks, is_single_user, allowed_devices, poisoned,
                    next_uuid, issued, poll, dialog, turn >>

\* Line 179: the task a HeartBeat report names as running.
\* A heartbeat report that resolves its own id instead of its payload.
RunningTaskType_OfReport(req) == get_task_type(req.task)

RunningTaskType(req) == get_task_type(req.payload)

\* Lines 179-189: a HeartBeat payload that is not empty is resolved as a task id.
report_status_heartbeat ==
    /\ out = None /\ report # None
    /\ LET response_task_type == RunningTaskType(report)
       IN IF response_task_type \in { PoisonError, TaskNotFound }
          THEN EndReport(report, "INTERNAL_SERVER_ERROR", report.notes)
          ELSE EndReport(report, "OK",
                         Append(report.notes,
                                Msg("Task {} is running.\nTask id: {}",
                                    << to_string(response_task_type), report.payload >>, {})))
    /\ report' = None
    /\ UNCHANGED << devices, all_tasks, is_single_user, allowed_devices, poisoned,
                    next_uuid, issued, poll, dialog, turn >>

\* ------------------------------------------------------------------------
\* Properties

\* The registry holds exactly one device, and that device exactly one session.
RegistrySingle == Cardinality(DOMAIN devices) = 1 /\ Sessions(devices) = 1

\* What one call of append_task for a task of the given kind must have done.
EnqueueEffect(call) ==
    LET kind == from_str(call.task)
        old == devices[call.device_id].users[call.user_id].tasks
        new == devices'[call.device_id].users[call.user_id].tasks
        added == SubSeq(new, Len(old) + 1, Len(new))
    IN /\ Len(new) >= Len(old)
       /\ SubSeq(new, 1, Len(old)) = old
       /\ IF kind # "CaptureImage"
          THEN /\ Len(added) = 2
               /\ added[1].task_type = kind
               /\ added[2].task_type = "CaptureImage"
               /\ added[1].id # added[2].id
          ELSE /\ Len(added) = 1
               /\ added[1].task_type = "CaptureImage"
       /\ \A i \in 1..Len(added) :
            /\ added[i].id \notin DOMAIN all_tasks
            /\ added[i].id \in DOMAIN all_tasks'
            /\ all_tasks'[added[i].id] = added[i].task_type

\* C1: every call of append_task for an existing device and session (the locks not
\* poisoned) adds exactly two tasks to that session's list when the kind is not
\* CaptureImage, the requested kind first and a CaptureImage task second, and exactly
\* one when it is; the ids added are new keys of all_tasks with those kinds.
C1_CompanionTask ==
    [][ (/\ out'.op = "update"
         /\ out'.call.made
         /\ ~poisoned
         /\ out'.call.device_id \in DOMAIN devices
         /\ out'.call.user_id \in DOMAIN devices[out'.call.device_id].users
         /\ from_str(out'.call.task) # Panic)
        => EnqueueEffect(out'.call) ]_vars

C1_Witness ==
    /\ out.op = "update"
    /\ out.call.made
    /\ out.result = "ok"
    /\ from_str(out.call.task) = "HeartBeat"
    /\ Len(devices[out.call.device_id].users[out.call.user_id].tasks) = 2

\* C2: while the locks are not poisoned, get_task_type of the id of every task ever
\* created by append_task, primary or companion, is that task's kind, whatever polls,
\* reports and enqueues came later.
C2_CorrelationComplete ==
    ~poisoned => \A i \in 1..Len(issued) : get_task_type(issued[i].id) = issued[i].task_type

C2_Witness ==
    /\ Len(issued) = 2
    /\ issued[1].task_type = "CaptureImage"
    /\ issued[2].task_type = "CaptureImage"
    /\ out.op = "report_status"
    /\ out.ack = "OK"
    /\ out.task = issued[1].id

\* C3 as claimed: the poll that holds the lock has left the session's list empty.
C3_DrainClears ==
    poll # None => devices[poll.device].users[poll.user].tasks = <<>>

\* C3 as amended: a poll answers with the session's pending list and leaves the list
\* as it was, so a second poll with no enqueue in between gets the same tasks again.
C3_PollKeepsList ==
    /\ poll # None => devices[poll.device].users[poll.user].tasks = poll.tasks
    /\ (/\ out.op = "get_task"
        /\ out.status = "OK"
        /\ out.device \in DOMAIN devices)
       => devices[out.device].users[out.user].tasks = out.tasks

C3_Witness ==
    /\ out.op = "get_task"
    /\ out.status = "OK"
    /\ out.tasks # <<>>

\* C4: whenever no poll holds the devices lock, is_single_user is true exactly when
\* the registry holds one device with one session.
C4_SingleUserFlag ==
    poll = None => (is_single_user <=> RegistrySingle)

C4_Witness ==
    /\ poll = None
    /\ is_single_user
    /\ Len(issued) > 0
    /\ out.op = "get_task"

\* C5: an appendtask command dispatched while the registry holds one device with one
\* session (no poll under way) takes the single-session branch without touching the
\* dialogue state, and that branch moves the dialogue straight to
\* AppendTaskToUser(device id, session id) of that one pair.
C5_SingleSessionCollapse ==
    [][ /\ (/\ turn = None
            /\ turn' # None
            /\ turn'.data = "appendtask"
            /\ poll = None
            /\ RegistrySingle)
           => (turn'.pc = "get_single_device_and_user" /\ dialog' = dialog)
        /\ (/\ turn # None
            /\ turn.data = "appendtask"
            /\ turn.pc = "get_single_device_and_user"
            /\ turn' = None
            /\ ~poisoned
            /\ RegistrySingle)
           => /\ out'.result = "ok"
              /\ \A d \in DOMAIN devices : \A u \in DOMAIN devices[d].users :
                    dialog'[turn.chat] = AppendTaskToUser(d, u) ]_vars

C5_Witness ==
    /\ out.op = "update"
    /\ out.data = "appendtask"
    /\ out.result = "ok"
    /\ out.before.state # "Idle"
    /\ RegistrySingle
    /\ dialog[out.chat].state = "AppendTaskToUser"

\* C6: an appendtask command dispatched once the registry holds a second session or
\* a second device (no poll under way) puts the dialogue in StartAppendTask and asks
\* for the device.
C6_SecondSessionEndsCollapse ==
    [][ /\ (/\ turn = None
            /\ turn' # None
            /\ turn'.data = "appendtask"
            /\ poll = None
            /\ Sessions(devices) >= 2)
           => (turn'.pc = "get_devices_markup" /\ dialog'[turn'.chat] = StartAppendTask)
        /\ (/\ turn # None
            /\ turn.data = "appendtask"
            /\ turn.pc = "get_devices_markup"
            /\ turn' = None)
           => dialog'[turn.chat] = StartAppendTask ]_vars

C6_Witness ==
    /\ out.op = "update"
    /\ out.data = "appendtask"
    /\ out.result = "ok"
    /\ Sessions(devices) >= 2
    /\ Cardinality(DOMAIN devices) = 1
    /\ dialog[out.chat] = StartAppendTask

\* C7: with an allow-list configured, a poll from a device id outside it is answered
\* with an empty task list and changes neither the registry nor the flag, and every
\* device the registry holds is allow-listed and carries the allow-list's name.
C7_AllowListGating ==
    [][ /\ (/\ out'.op = "get_task"
            /\ allowed_devices.some
            /\ out'.device \notin DOMAIN allowed_devices.map)
           => /\ out'.tasks = <<>>
              /\ devices' = devices
              /\ is_single_user' = is_single_user
        /\ allowed_devices.some
           => \A d \in DOMAIN devices' :
                /\ d \in DOMAIN allowed_devices.map
                /\ devices'[d].name = allowed_devices.map[d] ]_vars

C7_Witness ==
    /\ out.op = "get_task"
    /\ allowed_devices.some
    /\ out.device \notin DOMAIN allowed_devices.map
    /\ DOMAIN devices # {}
    /\ \A d \in DOMAIN devices : devices[d].name # d

\* C8: an update from a chat other than the configured user's gets no reply and
\* changes no dialogue state, registry or correlation map.
C8_AccessControlGate ==
    [][ (out'.op = "update" /\ out'.chat # tg_user_id)
        => /\ out'.result = "dropped"
           /\ out'.replies = <<>>
           /\ ~out'.call.made
           /\ UNCHANGED << dialog, devices, all_tasks, is_single_user >> ]_vars

C8_Witness ==
    /\ out.op = "update"
    /\ out.chat # tg_user_id
    /\ out.kind = "callback"
    /\ dialog[tg_user_id].state # "Idle"

\* C9: a report for a HeartBeat task (locks not poisoned) with an empty payload is
\* acknowledged OK with the notification "No task is running."; with a payload that
\* is a known task id it is acknowledged OK with a notification naming the kind of
\* the task the payload names, and the payload.
C9_HeartbeatIndirection ==
    (/\ out.op = "report_status"
     /\ ~poisoned
     /\ out.task \in DOMAIN all_tasks
     /\ all_tasks[out.task] = "HeartBeat")
    => /\ out.payload = EmptyStr
          => /\ out.ack = "OK"
             /\ out.notes = << Finished("HeartBeat", out.status),
                               Msg("No task is running.", <<>>, {}) >>
       /\ (out.payload # EmptyStr /\ out.payload \in DOMAIN all_tasks)
          => /\ out.ack = "OK"
             /\ out.notes = << Finished("HeartBeat", out.status),
                               Msg("Task {} is running.\nTask id: {}",
                                   << to_string(all_tasks[out.payload]), out.payload >>, {}) >>

C9_Witness ==
    /\ out.op = "report_status"
    /\ out.ack = "OK"
    /\ out.task \in DOMAIN all_tasks
    /\ all_tasks[out.task] = "HeartBeat"
    /\ out.payload \in DOMAIN all_tasks
    /\ all_tasks[out.payload] # "HeartBeat"
    /\ Len(out.notes) = 2

\* A callback that carries a task token while the dialogue awaits the device choice.
TaskTokenAtDeviceStep ==
    /\ out.op = "update"
    /\ out.chat = tg_user_id
    /\ out.kind = "callback"
    /\ out.before = StartAppendTask
    /\ starts_with(out.data, "t:")

\* C10 as claimed: the turn is answered "Invalid state" and the dialogue stays in
\* StartAppendTask.
C10_InvalidStateReply ==
    TaskTokenAtDeviceStep
    => /\ dialog[out.chat] = StartAppendTask
       /\ \E i \in 1..Len(out.replies) : out.replies[i].text = "Invalid state"

\* C10 as amended: the turn is answered "Invalid device id", the callback is
\* acknowledged, nothing is enqueued and the dialogue stays in StartAppendTask.
C10_InvalidDeviceIdReply ==
    TaskTokenAtDeviceStep
    => /\ dialog[out.chat] = StartAppendTask
       /\ out.replies = << Msg("Invalid device id", <<>>, {}), Answer >>
       /\ ~out.call.made

C10_Witness ==
    /\ TaskTokenAtDeviceStep
    /\ dialog[out.chat] = StartAppendTask
    /\ Len(out.replies) = 2

\* The prefix a dialogue state asks of the token it is given ("" when it asks none).
ExpectedPrefix(state) ==
    IF state.state \in { "StartAppendTask", "StartAppendHeartBeatTask" } THEN "d:"
    ELSE IF state.state \in { "AppendTaskToDevice", "AppendHeartBeatTaskToDevice" } THEN "u:"
    ELSE IF state.state = "AppendTaskToUser" THEN "t:"
    ELSE ""

\* C11: a token of the permitted operator that lacks the prefix its dialogue state
\* expects leaves the dialogue, the registry, the correlation map and the flag as
\* they were, makes no call of append_task, and is answered with one "Invalid ..."
\* message and the callback acknowledgement.
C11_PrefixErrorKeepsState ==
    [][ (/\ out'.op = "update"
         /\ out'.chat = tg_user_id
         /\ out'.kind = "callback"
         /\ ExpectedPrefix(out'.before) # ""
         /\ ~starts_with(out'.data, ExpectedPrefix(out'.before)))
        => /\ dialog' = dialog
           /\ dialog'[out'.chat] = out'.before
           /\ ~out'.call.made
           /\ UNCHANGED << devices, all_tasks, is_single_user, next_uuid >>
           /\ Len(out'.replies) = 2
           /\ out'.replies[1].text \in { "Invalid device id", "Invalid user id", "Invalid task" }
           /\ out'.replies[2] = Answer ]_vars

C11_Witness ==
    /\ out.op = "update"
    /\ out.chat = tg_user_id
    /\ out.kind = "callback"
    /\ out.before.state = "AppendTaskToUser"
    /\ starts_with(out.data, "u:")
    /\ dialog[out.chat] = out.before
    /\ out.replies[1].text = "Invalid task"

\* Number of chat messages among the calls a turn made to Telegram.
MessagesOf(replies) == Len(SelectSeq(replies, LAMBDA r : r.method = "send_message"))

EndsWithEnqueueOf(tasks, kind) ==
    IF kind = "CaptureImage"
    THEN Len(tasks) >= 1 /\ tasks[Len(tasks)].task_type = "CaptureImage"
    ELSE /\ Len(tasks) >= 2
         /\ tasks[Len(tasks) - 1].task_type = kind
         /\ tasks[Len(tasks)].task_type = "CaptureImage"

\* C13 as claimed: in AppendTaskToUser(device_id, user_id) a token "t:K" for a task
\* kind K ends with the dialogue in Idle, one "Task added" message and K enqueued on
\* that device's session; and the dialogue is in Idle only if the enqueue succeeded.
C13_ReceiveTaskEnqueues ==
    (/\ out.op = "update"
     /\ out.chat = tg_user_id
     /\ out.kind = "callback"
     /\ out.before.state = "AppendTaskToUser"
     /\ starts_with(out.data, "t:")
     /\ from_str(replace(out.data, "t:")) # Panic)
    => /\ out.result = "ok"
       /\ dialog[out.chat] = Idle
       /\ MessagesOf(out.replies) = 1
       /\ out.before.device_id \in DOMAIN devices
       /\ out.before.user_id \in DOMAIN devices[out.before.device_id].users
       /\ EndsWithEnqueueOf(devices[out.before.device_id].users[out.before.user_id].tasks,
                            from_str(replace(out.data, "t:")))

\* C14 as claimed: a screenshotall command of the permitted operator completes and
\* leaves every session of every device with a CaptureImageNow task and its companion
\* at the end of its list.
C14_ScreenshotFanOut ==
    (/\ out.op = "update"
     /\ out.chat = tg_user_id
     /\ out.data = "screenshotall")
    => /\ out.result = "ok"
       /\ \A d \in DOMAIN devices : \A u \in DOMAIN devices[d].users :
            EndsWithEnqueueOf(devices[d].users[u].tasks, "CaptureImageNow")

\* C15: with the locks not poisoned, a report whose task id is not a key of
\* all_tasks is answered with an error and no notification, and a HeartBeat report
\* whose non-empty payload is not a key of all_tasks is answered with an error after
\* the "finished" notice alone; neither changes registry, correlation map or flag.
C15_UnknownTaskFails ==
    [][ (out'.op = "report_status" /\ ~poisoned)
        => /\ out'.task \notin DOMAIN all_tasks
              => /\ out'.ack = "INTERNAL_SERVER_ERROR"
                 /\ out'.notes = <<>>
           /\ (/\ out'.task \in DOMAIN all_tasks
               /\ all_tasks[out'.task] = "HeartBeat"
               /\ out'.payload # EmptyStr
               /\ out'.payload \notin DOMAIN all_tasks)
              => /\ out'.ack = "INTERNAL_SERVER_ERROR"
                 /\ out'.notes = << Finished("HeartBeat", out'.status) >>
           /\ UNCHANGED << devices, all_tasks, is_single_user, dialog, poisoned >> ]_vars

C15_Witness ==
    /\ out.op = "report_status"
    /\ ~poisoned
    /\ out.task \in DOMAIN all_tasks
    /\ all_tasks[out.task] = "HeartBeat"
    /\ out.payload # EmptyStr
    /\ out.payload \notin DOMAIN all_tasks
    /\ out.ack = "INTERNAL_SERVER_ERROR"

\* Position of a task in the history of all tasks created so far.
IssuedIndex(t) == CHOOSE k \in 1..Len(issued) : issued[k] = t

\* The tasks are in the order they were created, and every task that is not a
\* CaptureImage task is directly followed by the CaptureImage task created with it.
InEnqueueOrder(tasks) ==
    /\ \A i \in 1..Len(tasks) : \E k \in 1..Len(issued) : issued[k] = tasks[i]
    /\ \A i \in 1..Len(tasks) - 1 :
         IssuedIndex(tasks[i]) < IssuedIndex(tasks[i + 1])
    /\ \A i \in 1..Len(tasks) :
         tasks[i].task_type # "CaptureImage"
         => /\ i < Len(tasks)
            /\ tasks[i + 1].task_type = "CaptureImage"
            /\ IssuedIndex(tasks[i + 1]) = IssuedIndex(tasks[i]) + 1

Range(tasks) == { tasks[i] : i \in 1..Len(tasks) }

\* C17: every task ever enqueued is in the pending list of a session, and a poll
\* that is answered returns every task its session's list holds: a task enqueued
\* while a poll holds the lock, or before it, is in the list for the next poll.
C17_NoTaskLost ==
    /\ Range(issued) \subseteq
          UNION { UNION { Range(devices[d].users[u].tasks) : u \in DOMAIN devices[d].users }
                  : d \in DOMAIN devices }
    /\ poll # None
       => Range(devices[poll.device].users[poll.user].tasks) \subseteq Range(poll.tasks)
    /\ (out.op = "get_task" /\ out.status = "OK" /\ out.device \in DOMAIN devices)
       => Range(devices[out.device].users[out.user].tasks) \subseteq Range(out.tasks)

\* A poll holds the lock with its snapshot taken while the dialogue is about to
\* enqueue on the very session polled.
C17_Witness ==
    /\ poll # None
    /\ poll.tasks # <<>>
    /\ dialog[tg_user_id].state = "AppendTaskToUser"
    /\ dialog[tg_user_id].device_id = poll.device
    /\ dialog[tg_user_id].user_id = poll.user
    /\ next_uuid < MaxTasks

\* C18 as claimed: whatever turn or request failed before, a poll is answered OK,
\* and so is a report of an issued task with an empty payload.
C18_FailureConfined ==
    /\ out.op = "get_task" => out.status = "OK"
    /\ (out.op = "report_status" /\ out.task \in DOMAIN all_tasks /\ out.payload = EmptyStr)
       => out.ack = "OK"

\* A finished turn whose token named a device the registry does not hold, or whose
\* enqueue named a device or session the registry does not hold.
UnknownSelection ==
    /\ out.op = "update"
    /\ out.chat = tg_user_id
    /\ out.kind = "callback"
    /\ \/ /\ out.before.state \in { "StartAppendTask", "StartAppendHeartBeatTask" }
          /\ starts_with(out.data, "d:")
          /\ replace(out.data, "d:") \notin DOMAIN devices
       \/ /\ out.call.made
          /\ out.call.device_id \notin DOMAIN devices
       \/ /\ out.call.made
          /\ out.call.device_id \in DOMAIN devices
          /\ out.call.user_id \notin DOMAIN devices[out.call.device_id].users

\* C19 as claimed: such a turn leaves the dialogue state as it was before the turn.
C19_UnknownSelectionKeepsState ==
    UnknownSelection => dialog[out.chat] = out.before

\* C20 as claimed: no operation waits for the devices write lock while it holds the
\* devices read lock itself.
C20_NoSelfDeadlock ==
    turn # None => turn.pc # "deadlock"

\* A finished turn that took the single-session branch of appendtask or of
\* getcurrenttask and bound itself to a pair of the registry.
BoundToSinglePair ==
    /\ out.op = "update"
    /\ out.chat = tg_user_id
    /\ out.kind = "command"
    /\ out.result = "ok"
    /\ \/ out.data = "appendtask" /\ dialog[out.chat].state = "AppendTaskToUser"
       \/ out.data = "getcurrenttask" /\ out.call.made

\* C21 as claimed: whenever a flow has read the flag as true and bound itself to a
\* pair, the registry holds exactly one device with exactly one session.
C21_StaleFlagHarmless ==
    BoundToSinglePair => RegistrySingle

\* All (device, session, position) places of the registry's queues.
QueuePlaces ==
    UNION { UNION { { << d, u, i >> : i \in DOMAIN devices[d].users[u].tasks }
                    : u \in DOMAIN devices[d].users }
            : d \in DOMAIN devices }

HoldsTask(p) ==
    /\ p[2] \in DOMAIN devices[p[1]].users
    /\ p[3] <= Len(devices[p[1]].users[p[2]].tasks)

TaskAt(p) == devices[p[1]].users[p[2]].tasks[p[3]]

\* C22: in every reachable state every queued task has its id in all_tasks with its
\* kind, no id is queued at two places, and every queued task that is not a
\* CaptureImage task has a CaptureImage task right after it.
C22_NoTornState ==
    LET held == QueuePlaces
    IN  /\ Cardinality({ TaskAt(p).id : p \in held }) = Cardinality(held)
        /\ \A p \in held :
              /\ TaskAt(p).id \in DOMAIN all_tasks
              /\ all_tasks[TaskAt(p).id] = TaskAt(p).task_type
              /\ TaskAt(p).task_type # "CaptureImage"
                 => /\ HoldsTask(<< p[1], p[2], p[3] + 1 >>)
                    /\ TaskAt(<< p[1], p[2], p[3] + 1 >>).task_type = "CaptureImage"

\* A poll holds the lock, with a primary task and its companion in the session it
\* reads, while the dialogue is bound to that session for the next enqueue.
C22_Witness ==
    /\ poll # None
    /\ Len(poll.tasks) = 2
    /\ poll.tasks[1].task_type = "LinkStartCombat"
    /\ poll.tasks[2].id \in DOMAIN all_tasks
    /\ dialog[tg_user_id].state = "AppendTaskToUser"

\* C23 as claimed: a token of the presented device list, given in StartAppendTask,
\* ends with the session list sent and the dialogue in AppendTaskToDevice bound to
\* the id of the registry device the entry stands for.
C23_DeviceChoiceBindsId ==
    (/\ out.op = "update"
     /\ out.chat = tg_user_id
     /\ out.kind = "callback"
     /\ out.before = StartAppendTask
     /\ ~poisoned
     /\ out.data \in get_devices_markup)
    => /\ out.result = "ok"
       /\ \E d \in DOMAIN devices :
            /\ out.data = format("d:", devices[d].name)
            /\ dialog[out.chat] = AppendTaskToDevice(devices[d].id)

\* C24 as claimed: getcurrenttask either enqueues a HeartBeat task on the single pair
\* and leaves the dialogue in Idle, or puts the dialogue in StartAppendHeartBeatTask;
\* there a device token leads to AppendHeartBeatTaskToDevice of that device, and there
\* a session token enqueues a HeartBeat task on exactly that device's session and
\* returns the dialogue to Idle.
C24_HeartbeatFlow ==
    (out.op = "update" /\ out.chat = tg_user_id)
    => /\ out.data = "getcurrenttask"
          => /\ out.result = "ok"
             /\ IF out.call.made
                THEN /\ RegistrySingle
                     /\ dialog[out.chat] = Idle
                     /\ EndsWithEnqueueOf(
                          devices[out.call.device_id].users[out.call.user_id].tasks,
                          "HeartBeat")
                ELSE dialog[out.chat] = StartAppendHeartBeatTask
       /\ (/\ out.kind = "callback"
           /\ out.before = StartAppendHeartBeatTask
           /\ starts_with(out.data, "d:"))
          => /\ out.result = "ok"
             /\ dialog[out.chat] = AppendHeartBeatTaskToDevice(replace(out.data, "d:"))
       /\ (/\ out.kind = "callback"
           /\ out.before.state = "AppendHeartBeatTaskToDevice"
           /\ starts_with(out.data, "u:"))
          => /\ out.result = "ok"
             /\ dialog[out.chat] = Idle
             /\ out.before.device_id \in DOMAIN devices
             /\ replace(out.data, "u:") \in DOMAIN devices[out.before.device_id].users
             /\ EndsWithEnqueueOf(
                  devices[out.before.device_id].users[replace(out.data, "u:")].tasks,
                  "HeartBeat")

\* C26: no step removes a key of all_tasks or changes the kind a key is mapped to.
C26_CorrelationAppendOnly ==
    [][ \A id \in DOMAIN all_tasks :
          /\ id \in DOMAIN all_tasks'
          /\ all_tasks'[id] = all_tasks[id] ]_vars

\* Two separate enqueues have been recorded and a report has been served since.
C26_Witness ==
    /\ Len(issued) = 2
    /\ issued[1].task_type = "CaptureImage"
    /\ issued[2].task_type = "CaptureImage"
    /\ DOMAIN all_tasks = { issued[1].id, issued[2].id }
    /\ out.op = "report_status"
    /\ out.task = issued[2].id

\* The payload handling of a report of the given kind succeeds.
PayloadHandled(kind, payload) ==
    IF kind \in { "CaptureImage", "CaptureImageNow" } THEN payload \in { EmptyStr, Base64Image }
    ELSE IF kind = "HeartBeat" THEN payload = EmptyStr \/ payload \in DOMAIN all_tasks
    ELSE TRUE

\* C27: a report whose task id resolves (locks not poisoned) has as its first
\* notification the notice naming the resolved kind and the reported status, sends
\* that notice once, and is acknowledged OK exactly when its payload handling succeeds.
C27_NotifyThenAcknowledge ==
    (/\ out.op = "report_status"
     /\ ~poisoned
     /\ out.task \in DOMAIN all_tasks)
    => /\ Len(out.notes) >= 1
       /\ out.notes[1] = Msg("Task {} finished. Status: {}",
                             << to_string(all_tasks[out.task]), out.status >>, {})
       /\ \A i \in 2..Len(out.notes) : out.notes[i] # out.notes[1]
       /\ out.ack = "OK" <=> PayloadHandled(all_tasks[out.task], out.payload)

C27_Witness ==
    /\ out.op = "report_status"
    /\ ~poisoned
    /\ out.task \in DOMAIN all_tasks
    /\ all_tasks[out.task] = "LinkStartCombat"
    /\ out.ack = "OK"
    /\ Len(out.notes) = 1

\* C28: the dialogue state of a chat changes only in a step of a turn of the
\* permitted operator in that chat that is not a screenshotall turn; no step of a
\* poll or of a report changes any dialogue state.
C28_DialogueHasNoExpiry ==
    [][ /\ \A c \in DOMAIN dialog :
             dialog'[c] # dialog[c]
             => /\ c = tg_user_id
                /\ \/ /\ turn = None /\ turn' # None
                      /\ turn'.chat = c /\ turn'.data \in { "appendtask", "getcurrenttask" }
                   \/ /\ out'.op = "update"
                      /\ out'.chat = c /\ out'.data # "screenshotall"
        /\ (poll' # poll \/ report' # report \/ out'.op \in { "get_task", "report_status" })
           => dialog' = dialog
        /\ DOMAIN dialog' = DOMAIN dialog ]_vars

\* The dialogue is parked in a selection state while a poll is answered with tasks of
\* an earlier flow.
C28_Witness ==
    /\ out.op = "get_task"
    /\ out.tasks # <<>>
    /\ dialog[tg_user_id].state = "AppendTaskToDevice"

\* C29: the step of a poll that admits device and session keeps all_tasks, every
\* existing device's name and every existing session; it adds at most the polled
\* device (named by the allow-list, else by its id, with no other session) and the
\* polled session (with an empty list); the step that answers changes neither.
C29_PollFrame ==
    [][ /\ (poll = None /\ poll' # None)
           => /\ all_tasks' = all_tasks
              /\ DOMAIN devices' = DOMAIN devices \cup { poll'.device }
              /\ \A d \in DOMAIN devices :
                   /\ devices'[d].name = devices[d].name
                   /\ devices'[d].id = devices[d].id
                   /\ \A u \in DOMAIN devices[d].users :
                        /\ u \in DOMAIN devices'[d].users
                        /\ devices'[d].users[u] = devices[d].users[u]
              /\ \A d \in DOMAIN devices' :
                   /\ DOMAIN devices'[d].users \subseteq
                        (IF d \in DOMAIN devices THEN DOMAIN devices[d].users ELSE {})
                           \cup (IF d = poll'.device THEN { poll'.user } ELSE {})
                   /\ d \notin DOMAIN devices
                      => /\ devices'[d].id = d
                         /\ devices'[d].name =
                              IF allowed_devices.some THEN allowed_devices.map[d] ELSE d
              /\ (poll'.device \notin DOMAIN devices
                  \/ poll'.user \notin DOMAIN devices[poll'.device].users)
                 => devices'[poll'.device].users[poll'.user] = User(poll'.user)
        /\ (poll # None /\ poll' = None)
           => (devices' = devices /\ all_tasks' = all_tasks) ]_vars

\* A second device was created by a poll, named by its id, next to a session that
\* holds tasks.
C29_Witness ==
    /\ out.op = "get_task"
    /\ out.tasks = <<>>
    /\ ~allowed_devices.some
    /\ Cardinality(DOMAIN devices) = 2
    /\ devices[out.device].name = out.device
    /\ issued # <<>>

\* C30: no step removes a device or a session; the flag turns true only while the
\* registry holds one session in all and turns false only while it holds two or
\* more, so after it has turned false it never turns true again.
C30_FlagChangesAtMostTwice ==
    [][ /\ \A d \in DOMAIN devices :
             /\ d \in DOMAIN devices'
             /\ DOMAIN devices[d].users \subseteq DOMAIN devices'[d].users
        /\ (~is_single_user /\ is_single_user') => Sessions(devices') = 1
        /\ (is_single_user /\ ~is_single_user') => Sessions(devices') >= 2 ]_vars

\* The flag is false again after it was true: a poll has just admitted a second
\* device next to the first one.
C30_Witness ==
    /\ ~is_single_user
    /\ poll = None
    /\ out.op = "get_task"
    /\ out.status = "OK"
    /\ Cardinality(DOMAIN devices) = 2
    /\ Sessions(devices) = 2

\* C31: an appendtask command of the permitted operator, in whatever state the
\* dialogue is, enqueues nothing and replaces the dialogue state: by StartAppendTask
\* at once when the flag is read false, and, when the flag is read true and the
\* registry lock is not poisoned, by AppendTaskToUser of a pair of the registry.
C31_CommandRestartsFlow ==
    [][ /\ (/\ turn = None
            /\ turn' # None
            /\ turn'.data = "appendtask")
           => /\ UNCHANGED << devices, all_tasks, issued, next_uuid >>
              /\ IF is_single_user
                 THEN turn'.pc = "get_single_device_and_user" /\ dialog' = dialog
                 ELSE /\ turn'.pc = "get_devices_markup"
                      /\ dialog'[turn'.chat] = StartAppendTask
        /\ (/\ turn # None
            /\ turn.data = "appendtask"
            /\ turn' = None)
           => /\ UNCHANGED << devices, all_tasks, issued, next_uuid >>
              /\ ~out'.call.made
              /\ turn.pc = "get_devices_markup" => dialog'[turn.chat] = StartAppendTask
              /\ (turn.pc = "get_single_device_and_user" /\ ~poisoned)
                 => /\ out'.result = "ok"
                    /\ \E pair \in SinglePairs :
                          dialog'[turn.chat] = AppendTaskToUser(pair[1].id, pair[2].id) ]_vars

\* The command arrived in the middle of the heartbeat flow, with a device already
\* chosen, and the dialogue now waits for the device of a new append-task flow.
C31_Witness ==
    /\ out.op = "update"
    /\ out.kind = "command"
    /\ out.data = "appendtask"
    /\ out.result = "ok"
    /\ out.before.state = "AppendHeartBeatTaskToDevice"
    /\ dialog[out.chat] = StartAppendTask
    /\ issued # <<>>

\* ------------------------------------------------------------------------

Next ==
    \/ Deliver
    \/ \E device \in DeviceIds, user \in UserIds : get_task_begin(device, user)
    \/ get_task_end
    \/ \E device \in DeviceIds, user \in UserIds : get_task_refused(device, user)
    \/ \E device \in DeviceIds, user \in UserIds : get_task_poisoned(device, user)
    \/ \E chat \in ChatIds, cmd \in Commands : drop_update(chat, "command", cmd)
    \/ \E chat \in ChatIds, data \in Tokens : drop_update(chat, "callback", data)
    \/ \E chat \in ChatIds, data \in Tokens : unhandled_callback(chat, data)
    \/ \E chat \in ChatIds : start_append_task_dialog(chat)
    \/ start_append_task_single
    \/ send_devices_markup
    \/ \E chat \in ChatIds : start_get_current_task_dialog(chat)
    \/ start_get_current_task_single
    \/ \E chat \in ChatIds : take_screenshot_all(chat)
    \/ \E chat \in ChatIds, data \in Tokens : receive_device(chat, data)
    \/ \E chat \in ChatIds, data \in Tokens : receive_user(chat, data)
    \/ \E chat \in ChatIds, data \in Tokens : receive_task(chat, data)
    \/ \E task \in { Uuid(n) : n \in 1..MaxTasks }, status \in Statuses, payload \in Payloads :
          report_status(task, status, payload)
    \/ report_status_heartbeat

Spec == Init /\ [][Next]_vars

\* ------------------------------------------------------------------------
\* Selection tokens on their own: the encoding of get_devices_markup,
\* get_users_markup and get_tasks_markup, and the decoding of receive_device,
\* receive_user and receive_task, applied to identifiers drawn from a bounded set.

MaxIdLen == 2

IdChunks == { "a", "d:", "u:", "t:" }

Tags == { "d:", "u:", "t:" }

\* Identifiers of up to MaxIdLen chunks; a device or session id is any string the
\* polling client sends.
TokenIds == UNION { [1..n -> IdChunks] : n \in 1..MaxIdLen }

\* format!("{tag}{id}") as callback data of a button.
build_token(tag, id) ==
    /\ out = None
    /\ out' = [op |-> "token", tag |-> tag, id |-> id, data |-> format(tag, id)]
    /\ UNCHANGED << devices, all_tasks, is_single_user, allowed_devices, poisoned,
                    next_uuid, issued, poll, dialog, turn, report >>

\* The handler of the step checks the prefix and strips it with str::replace.
decode_token ==
    /\ out.op = "token"
    /\ starts_with(out.data, out.tag)
    /\ out' = [op |-> "decoded", tag |-> out.tag, id |-> out.id, data |-> out.data,
               decoded |-> replace(out.data, out.tag)]
    /\ UNCHANGED << devices, all_tasks, is_single_user, allowed_devices, poisoned,
                    next_uuid, issued, poll, dialog, turn, report >>

TokenNext ==
    \/ \E tag \in Tags : \E id \in TokenIds : build_token(tag, id)
    \/ decode_token
    \/ Deliver

TokenSpec == Init /\ [][TokenNext]_vars

\* C25 as claimed: decoding the token built from a prefix and an identifier gives
\* back that identifier.
C25_TokenRoundTrip ==
    out.op = "decoded" => out.decoded = out.id

\* ------------------------------------------------------------------------
\* The task-kind step on its own: every button of get_tasks_markup, and callback
\* data with the task prefix that no button of the list carries, received by
\* receive_task in a dialogue the single-session flow has bound to a session.

\* The string forms of the variants of TaskType.
KindNames == { to_string(t) : t \in TaskType }

\* Strings after the task prefix that the choice list does not offer: HeartBeat is a
\* kind, the others are not (a variant identifier, a wrong case, an unknown word,
\* the empty string).
OtherKindStrings ==
    { <<"HeartBeat">>, <<"LinkStartCombat">>, <<"linkstart-combat">>, <<"Unknown">>, <<>> }

KindTokens == get_tasks_markup \cup { format("t:", s) : s \in OtherKindStrings }

KindNext ==
    \/ Deliver
    \/ \E device \in DeviceIds, user \in UserIds : get_task_begin(device, user)
    \/ get_task_end
    \/ start_append_task_dialog(tg_user_id)
    \/ start_append_task_single
    \/ send_devices_markup
    \/ \E data \in KindTokens : receive_task(tg_user_id, data)

KindSpec == Init /\ [][KindNext]_vars

\* C32: every name of get_all parses to a kind whose string form is that name, and
\* a receive_task turn that gets such a name on a working registry enqueues a task
\* of that kind; a turn that gets a string outside the kind names ends in a panic
\* with queues, correlation map and id counter unchanged; the correlation map only
\* ever holds kinds of TaskType.
C32_KindNamesClosed ==
    [][ /\ \A i \in 1..Len(get_all) :
             /\ from_str(get_all[i]) \in TaskType
             /\ to_string(from_str(get_all[i])) = get_all[i]
        /\ \A id \in DOMAIN all_tasks' : all_tasks'[id] \in TaskType
        /\ (out = None /\ out'.op = "update" /\ out'.call.made)
           => LET name == out'.call.task
                  first == Len(issued) + 1
              IN /\ name \notin KindNames
                    => /\ out'.result = "panic"
                       /\ UNCHANGED << devices, all_tasks, issued, next_uuid >>
                 /\ (/\ name \in Range(get_all)
                     /\ ~poisoned
                     /\ out'.call.device_id \in DOMAIN devices
                     /\ out'.call.user_id \in DOMAIN devices[out'.call.device_id].users)
                    => /\ out'.result = "ok"
                       /\ Len(issued') >= first
                       /\ to_string(issued'[first].task_type) = name
                       /\ all_tasks'[issued'[first].id] = from_str(name)
                       /\ issued'[first] \in
                            Range(devices'[out'.call.device_id].users[out'.call.user_id].tasks)
      ]_vars

\* A name of the list that the other flows of this model never pick has been
\* enqueued, and a later turn that got a variant identifier has just panicked.
C32_Witness ==
    /\ out.op = "update"
    /\ out.call.made
    /\ out.call.task = <<"LinkStartCombat">>
    /\ out.result = "panic"
    /\ Len(issued) = 2
    /\ to_string(issued[1].task_type) = <<"LinkStart-Base">>


====
